---- MODULE Spec2Model ----
(***************************************************************************)
(* A model of lightagent's tape-structured execution core:                 *)
(*   src/src/lightagent/tape.py   Tape, Step, TapeMetadata                 *)
(*   src/src/lightagent/tools.py  Tool, RunContext, Tool.execute           *)
(*   src/src/lightagent/agents/   BaseAgent.execute_step, SimpleAgent      *)
(* Python objects live in a heap: a Tape holds a reference to its list of  *)
(* steps, so that sharing a list between two tapes is expressible.         *)
(***************************************************************************)
EXTENDS Integers, Sequences, FiniteSets, TLC

\* ------------------------------------------------------------------ bounds
\* Spec, the tool pipeline: contexts (tapes), execute calls, max_retries.
MaxContexts == 2
MaxCalls == 4
MaxRetriesBound == 3
\* SpecTape, the tape operations: tapes, and hand-built steps held by them.
MaxTapes == 3
MaxHandSteps == 3
\* SpecAll, every operation together: tapes, hand-built steps held, calls.
MaxAllTapes == 2
MaxAllHandSteps == 1
MaxAllCalls == 1
\* SpecQuery, the query operations: tapes, and hand-built steps held by them.
MaxQueryTapes == 1
MaxQuerySteps == 3
\* SpecArgs, the arguments of a call: contexts (tapes) and execute calls.
MaxArgContexts == 1
MaxArgCalls == 2
\* SpecAgent, the agent's step execution: tapes and execute_step calls.
MaxAgentTapes == 2
MaxStepCalls == 2
\* SpecHeld: tapes, hand-built steps held by all tapes together and
\* execute_step calls.
MaxHeldTapes == 1
MaxHeldSteps == 1
MaxHeldCalls == 2
\* Tapes (one per Agent/Tape pair) and execute calls in SpecPairs.
MaxPairTapes == 2
MaxPairCalls == 3
\* Execute calls in SpecTwin, over both Tools.
MaxTwinCalls == 6
\* Tapes and hand-built steps held by all tapes together in SpecStore.
MaxStoreTapes == 3
MaxStoreSteps == 2
\* Declared parameters of a callable in SpecSchema, the leading one included.
MaxParams == 3

\* ------------------------------------------------------------- data model
\* Optional[...] fields that are unset; uuids are drawn from 1 upwards.
None == 0

\* class StepType(str, Enum)
Thought == "thought"
Action == "action"
Observation == "observation"
StepType == {Thought, Action, Observation}

\* Authors a caller gives a new tape; Tape() itself uses "root".
Authors == {"root", "search_agent"}

\* The steps a caller builds by hand, as create_example_tape does: a thought
\* and an action of an agent, an observation of the environment.
Agents == {"search_agent", "environment"}
HandSteps == { [type |-> Thought, agent |-> "search_agent"],
               [type |-> Action, agent |-> "search_agent"],
               [type |-> Observation, agent |-> "environment"] }

\* Python values are written as strings; this one is Python's None.
NoneValue == "None"

\* Declared parameters (after the context) of the wrapped callables, in the
\* order of the signature. The search, failing and error tools are given the
\* signature of the search tools, (ctx, query: str, max_results: int = 10).
Params == << [name |-> "query", required |-> TRUE],
             [name |-> "max_results", required |-> FALSE, default |-> "10"] >>
\* complex_tool(ctx, required_str: str, optional_int: Optional[int] = None,
\*              nested_dict: Optional[Dict[str, Any]] = None)
ComplexParams ==
    << [name |-> "required_str", required |-> TRUE],
       [name |-> "optional_int", required |-> FALSE, default |-> NoneValue],
       [name |-> "nested_dict", required |-> FALSE, default |-> NoneValue] >>

\* Argument mappings a caller supplies to execute, as ordered key/value pairs
\* (a dict keeps the order in which its keys were written).
ArgChoices == { << <<"query", "test query">> >>,
                << <<"max_results", "5">> >> }
\* Those supplied to complex_tool: the two of its test, one that omits the
\* optional parameter in the middle, one whose keys are written in another
\* order than the parameters are declared, one that lacks the required one.
ComplexArgChoices ==
    { << <<"required_str", "test">> >>,
      << <<"required_str", "test">>, <<"optional_int", "42">>,
         <<"nested_dict", "{key: value}">> >>,
      << <<"required_str", "test">>, <<"nested_dict", "{key: value}">> >>,
      << <<"optional_int", "42">>, <<"required_str", "test">> >>,
      << <<"optional_int", "42">> >> }

\* The wrapped callables, as the tests write them: one raises on its first
\* `fails` invocations and returns afterwards (a search tool never raises,
\* failing_tool raises while failing_count < 3), or raises always (error_tool).
FailingToolFails == 2
Functions ==
    { [name |-> "search_tool", fails |-> 0, always |-> FALSE],
      [name |-> "failing_tool", fails |-> FailingToolFails, always |-> FALSE],
      [name |-> "error_tool", fails |-> 0, always |-> TRUE] }
\* complex_tool never raises: it returns what it was called with.
ComplexTool == [name |-> "complex_tool", fails |-> 0, always |-> FALSE]
ParamsOf(fn) == IF fn.name = "complex_tool" THEN ComplexParams ELSE Params

VARIABLES
    next_uuid,  \* the uuid4() generator: the next value it hands out
    lists,      \* heap of Python list objects: lists[r] is a sequence of Steps
    tapes,      \* Tape objects in creation order: [steps |-> list ref, metadata]
    tools,      \* Tool objects in creation order
    pending,    \* execute calls suspended at `await self.function(...)`
    calls,      \* what each finished execute call gave its caller, in order
    ret,        \* the value the last query operation returned
    agents,     \* agent objects in creation order: [name, current_tape]
    phases,     \* the think/act/observe invocations made, in order
    step_results, \* what each execute_step call gave its caller, in order
    store       \* the tape store: rows of saved tapes and of their steps

vars == <<next_uuid, lists, tapes, tools, pending, calls, ret,
          agents, phases, step_results, store>>

\* uuid.uuid4(): a value no earlier call has returned.
uuid4 == next_uuid

\* Step(type=..., content=..., metadata=StepMetadata(agent=..., node=...))
Step(type, content, agent, node) ==
    [type |-> type, content |-> content, agent |-> agent, node |-> node]

\* TapeMetadata(author=..., parent_id=...), tape_id from its default factory.
TapeMetadata(author, parent_id, id) ==
    [author |-> author, parent_id |-> parent_id, tape_id |-> id]

\* tape.steps: the list the tape refers to.
StepsOf(t) == lists[tapes[t].steps]

\* self.steps.append(step) on the list object r.
PrependStep(ls, r, step) == [ls EXCEPT ![r] = <<step>> \o @]
append(ls, r, step) == [ls EXCEPT ![r] = Append(@, step)]

\* [step for step in self.steps if step.type == step_type]
ExcludeType(steps, step_type) ==
    SelectSeq(steps, LAMBDA s : s.type # step_type)
get_steps_by_type(steps, step_type) ==
    SelectSeq(steps, LAMBDA s : s.type = step_type)

\* [step for step in self.steps if step.metadata.agent == agent_name]
get_steps_by_agent(steps, agent_name) ==
    SelectSeq(steps, LAMBDA s : s.agent = agent_name)

\* self.steps[-1], or None when the tape has no steps.
FirstStep(steps) == IF steps = <<>> THEN None ELSE steps[1]
get_last_step(steps) == IF steps = <<>> THEN None ELSE steps[Len(steps)]

\* ------------------------------------------------------------------ state
\* Tool(function, max_retries=n): name from function.__name__, is_async from
\* the callable, current_retry = 0. `invoked` is the callable's own count of
\* its invocations (failing_count).
Tool(fn, async, n) ==
    [name |-> fn.name, function |-> fn, is_async |-> async,
     max_retries |-> n, current_retry |-> 0, invoked |-> 0]

\* BaseAgent.__init__(name): no tape is bound yet.
Agent(name) == [name |-> name, current_tape |-> None]

\* No tape yet, no call made, the Tool instances tls and the agents ags.
StartWith(tls, ags) ==
    /\ next_uuid = 1
    /\ lists = <<>>
    /\ tapes = <<>>
    /\ tools = tls
    /\ pending = {}
    /\ calls = <<>>
    /\ ret = [op |-> "none"]
    /\ agents = ags
    /\ phases = <<>>
    /\ step_results = <<>>
    /\ store = [tapes |-> {}, steps |-> {}]
Start(tls) == StartWith(tls, <<>>)

\* One Tool has been constructed, over any of the callables.
Init ==
    \E fn \in Functions, async \in BOOLEAN, n \in 0..MaxRetriesBound :
        Start(<<Tool(fn, async, n)>>)

\* The same, with max_retries 0 or 1: the start of SpecAll.
InitAll ==
    \E fn \in Functions, async \in BOOLEAN, n \in {0, 1} :
        Start(<<Tool(fn, async, n)>>)

\* No Tool has been constructed.
InitTape == Start(<<>>)

\* One Tool has been constructed over complex_tool, written as a synchronous
\* or as an asynchronous function: the start of SpecArgs.
InitArgs ==
    \E async \in BOOLEAN, n \in {0, 1} : Start(<<Tool(ComplexTool, async, n)>>)

\* Two Tools have been constructed, one over the search tool and one over
\* the error tool, with the same max_retries: the start of SpecPairs.
InitPairs ==
    \E f \in Functions, g \in Functions, async \in BOOLEAN, n \in {0, 1} :
        /\ f.name = "search_tool" /\ g.name = "error_tool"
        /\ Start(<<Tool(f, async, n), Tool(g, async, n)>>)

\* Two Tools have been constructed over the same function, the first written
\* as a synchronous and the second as an asynchronous callable, with the
\* same max_retries: the start of SpecTwin.
InitTwin ==
    \E fn \in Functions, n \in {0, 1} :
        Start(<<Tool(fn, FALSE, n), Tool(fn, TRUE, n)>>)

\* Tape(metadata=TapeMetadata(author=a)); Tape() is the case a = "root".
NewTape(a) ==
    /\ lists' = Append(lists, <<>>)
    /\ tapes' = Append(tapes, [steps |-> Len(lists) + 1,
                               metadata |-> TapeMetadata(a, None, uuid4)])
    /\ next_uuid' = next_uuid + 1
    /\ UNCHANGED <<tools, pending, calls, ret,
                   agents, phases, step_results, store>>

\* The steps of a list that a caller built by hand (their node is "test_node").
HandBuilt(steps) == SelectSeq(steps, LAMBDA s : s.node = "test_node")

\* tape.append(Step(...)) by a caller, with a step built by hand.
TapeAppend(t, h) ==
    /\ lists' = append(lists, tapes[t].steps,
                       Step(h.type, "Test content", h.agent, "test_node"))
    /\ UNCHANGED <<next_uuid, tapes, tools, pending, calls, ret,
                   agents, phases, step_results, store>>

\* The list object a clone's `steps` refers to: self.steps.copy() is a new list.
SharedList(src) == src
CopiedList(src) == Len(lists) + 1

\* TapeMetadata(author=self.metadata.author, parent_id=self.metadata.tape_id)
MetadataNoParent(md, id) == TapeMetadata(md.author, None, id)
MetadataSameId(md, id) == TapeMetadata(md.author, md.tape_id, md.tape_id)
CloneMetadata(md, id) == TapeMetadata(md.author, md.tape_id, id)

\* tape.clone(): a new Tape over a copy of the list, with new metadata.
clone(t) ==
    LET r == CopiedList(tapes[t].steps) IN
        /\ lists' = IF r \in DOMAIN lists THEN lists
                    ELSE Append(lists, lists[tapes[t].steps])
        /\ tapes' = Append(tapes, [steps |-> r,
                        metadata |-> CloneMetadata(tapes[t].metadata, uuid4)])
    /\ next_uuid' = next_uuid + 1
    /\ UNCHANGED <<tools, pending, calls, ret,
                   agents, phases, step_results, store>>

\* The query operations: each hands a value to its caller.
GetStepsByType(t, ty) ==
    /\ ret' = [op |-> "get_steps_by_type", tape |-> t, arg |-> ty,
               value |-> get_steps_by_type(StepsOf(t), ty)]
    /\ UNCHANGED <<next_uuid, lists, tapes, tools, pending, calls,
                   agents, phases, step_results, store>>

GetStepsByAgent(t, a) ==
    /\ ret' = [op |-> "get_steps_by_agent", tape |-> t, arg |-> a,
               value |-> get_steps_by_agent(StepsOf(t), a)]
    /\ UNCHANGED <<next_uuid, lists, tapes, tools, pending, calls,
                   agents, phases, step_results, store>>

GetLastStep(t) ==
    /\ ret' = [op |-> "get_last_step", tape |-> t, arg |-> None,
               value |-> get_last_step(StepsOf(t))]
    /\ UNCHANGED <<next_uuid, lists, tapes, tools, pending, calls,
                   agents, phases, step_results, store>>

\* --------------------------------------------------------------- the store
\* The rows of the store that belong to identifier id.
TapeRows(st, id) == { r \in st.tapes : r.tape_id = id }
StepRows(st, id) == { r \in st.steps : r.tape_id = id }

\* The step sequence of a saved tape, rebuilt from its rows by position.
StoredReversed(st, id) ==
    LET rows == StepRows(st, id) IN
    [i \in 1..Cardinality(rows) |->
        (CHOOSE r \in rows : r.position = Cardinality(rows) + 1 - i).step]
StoredSteps(st, id) ==
    LET rows == StepRows(st, id) IN
    [i \in 1..Cardinality(rows) |->
        (CHOOSE r \in rows : r.position = i).step]

\* store.load_tape(id): NotFound for an identifier without a tape row,
\* otherwise a tape with the saved step sequence and the saved metadata.
load_tape(st, id) ==
    IF TapeRows(st, id) = {}
    THEN [outcome |-> "raised", error |-> "NotFound"]
    ELSE [outcome |-> "returned", steps |-> StoredSteps(st, id),
          metadata |-> CHOOSE r \in TapeRows(st, id) : TRUE]

\* store.get_tape_history(id): the identifiers along the parent_id chain,
\* from the given tape back to the root, the child before its parent.
HistoryOldestFirst(st, id) ==
    LET RECURSIVE Walk(_, _)
        Walk(cur, fuel) ==
            IF fuel = 0 \/ TapeRows(st, cur) = {} THEN <<>>
            ELSE Walk((CHOOSE r \in TapeRows(st, cur) : TRUE).parent_id,
                      fuel - 1) \o <<cur>>
    IN Walk(id, Cardinality(st.tapes))
get_tape_history(st, id) ==
    LET RECURSIVE Walk(_, _)
        Walk(cur, fuel) ==
            IF fuel = 0 \/ TapeRows(st, cur) = {} THEN <<>>
            ELSE <<cur>> \o
                 Walk((CHOOSE r \in TapeRows(st, cur) : TRUE).parent_id,
                      fuel - 1)
    IN Walk(id, Cardinality(st.tapes))

\* tape_id = store.save_tape(tape): the tape carries its identifier, the
\* rows saved under it are replaced by the tape's metadata and steps as
\* they are now, and the identifier is handed back.
SaveTape(t) ==
    LET id == tapes[t].metadata.tape_id IN
    /\ store' =
           [tapes |-> (store.tapes \ TapeRows(store, id))
                          \cup {tapes[t].metadata},
            steps |-> (store.steps \ StepRows(store, id)) \cup
                          { [tape_id |-> id, position |-> i,
                             step |-> StepsOf(t)[i]] :
                                i \in DOMAIN StepsOf(t) }]
    /\ ret' = [op |-> "save_tape", tape |-> t, value |-> id]
    /\ UNCHANGED <<next_uuid, lists, tapes, tools, pending, calls,
                   agents, phases, step_results>>

\* store.load_tape(id)
LoadTape(id) ==
    /\ ret' = [op |-> "load_tape", arg |-> id, value |-> load_tape(store, id)]
    /\ UNCHANGED <<next_uuid, lists, tapes, tools, pending, calls,
                   agents, phases, step_results, store>>

\* store.get_tape_history(id)
GetTapeHistory(id) ==
    /\ ret' = [op |-> "get_tape_history", arg |-> id,
               value |-> get_tape_history(store, id)]
    /\ UNCHANGED <<next_uuid, lists, tapes, tools, pending, calls,
                   agents, phases, step_results, store>>

\* ------------------------------------------------------------ Tool pipeline
\* The keys of an argument mapping, and the value it holds under a key.
Keys(args) == { args[i][1] : i \in DOMAIN args }
ArgValue(args, key) ==
    LET i == CHOOSE j \in DOMAIN args : args[j][1] = key IN args[i][2]

\* The name of the i-th declared parameter: those of the search tools first.
ParamName(i) ==
    CASE i = 1 -> "ctx" [] i = 2 -> "query" [] i = 3 -> "max_results"
      [] OTHER -> "param" \o ToString(i)
\* param.annotation: a type, or empty for a parameter without annotation.
Annotations == {"empty", "str", "int"}
\* signature(function).parameters: the declared parameters in order, each
\* with its annotation and whether it has a default value.
Signatures ==
    UNION { [ 1..n -> Annotations \X BOOLEAN ] : n \in 0..MaxParams }
Parameter(sig, i) ==
    [name |-> ParamName(i), annotation |-> sig[i][1],
     has_default |-> sig[i][2]]
\* TypeAdapter(annotation).json_schema() of an annotated parameter,
\* {"type": "object"} of one without annotation.
JsonSchemaOf(annotation) ==
    CASE annotation = "empty" -> [type |-> "object"]
      [] annotation = "str" -> [type |-> "string"]
      [] annotation = "int" -> [type |-> "integer"]
\* function_schema(function, takes_ctx)["parameters_json_schema"]: the
\* parameters from start_idx on, each a property under its name, and the
\* names of those whose default is empty. The mappings keep insertion order
\* and are written as sequences of name/value pairs.
SchemaAllRequired(sig, takes_ctx) ==
    LET start_idx == IF takes_ctx THEN 1 ELSE 0
        kept == [i \in 1..(IF Len(sig) > start_idx THEN Len(sig) - start_idx
                           ELSE 0) |-> Parameter(sig, i + start_idx)] IN
    [type |-> "object",
     properties |-> [i \in DOMAIN kept |->
                        <<kept[i].name, JsonSchemaOf(kept[i].annotation)>>],
     required |-> [i \in DOMAIN kept |-> kept[i].name]]
function_schema(sig, takes_ctx) ==
    LET start_idx == IF takes_ctx THEN 1 ELSE 0
        kept == [i \in 1..(IF Len(sig) > start_idx THEN Len(sig) - start_idx
                           ELSE 0) |-> Parameter(sig, i + start_idx)]
        names == [i \in DOMAIN kept |-> kept[i].name] IN
    [type |-> "object",
     properties |-> [i \in DOMAIN kept |->
                        <<kept[i].name, JsonSchemaOf(kept[i].annotation)>>],
     required |-> SelectSeq(names, LAMBDA nm :
                      \E i \in DOMAIN kept :
                          kept[i].name = nm /\ ~kept[i].has_default)]
\* schema = function_schema(function, self.takes_ctx), as Tool.__init__
\* calls it on the callable it is given.
FunctionSchema(sig, takes_ctx) ==
    /\ ret' = [op |-> "function_schema", function |-> sig,
               takes_ctx |-> takes_ctx,
               value |-> function_schema(sig, takes_ctx)]
    /\ UNCHANGED <<next_uuid, lists, tapes, tools, pending, calls,
                   agents, phases, step_results, store>>

\* function_schema(...)["parameters_json_schema"]["required"]: the declared
\* parameters that have no default value.
Required(fn) ==
    { ParamsOf(fn)[i].name :
          i \in { j \in DOMAIN ParamsOf(fn) : ParamsOf(fn)[j].required } }

\* self.validator.validate_python(args) raises when a required field is
\* missing; otherwise it hands back the mapping: the derived schema holds the
\* names, the types and the required list, no default values.
ValidationNever(fn, args) == FALSE
ValidationRaises(fn, args) == Required(fn) \ Keys(args) # {}
ValidationError(fn, args) ==
    [type |-> "ValidationError",
     msg |-> <<"Field required",
               CHOOSE f \in Required(fn) \ Keys(args) : TRUE>>]
validate_python(fn, args) == args

\* call_args = [context]; call_args.extend(validated_args.values()): the
\* context, then the values of the mapping in the mapping's own order.
call_args(fn, validated_args) ==
    <<"context">> \o
    [i \in DOMAIN validated_args |-> validated_args[i][2]]

\* self.function(*call_args): Python binds the values to the parameters by
\* position, and a parameter left without a value takes its default.
Received(fn, args) ==
    LET positional == call_args(fn, validate_python(fn, args))
        names == <<"ctx">> \o [i \in DOMAIN ParamsOf(fn) |-> ParamsOf(fn)[i].name]
    IN [i \in DOMAIN names |->
           [name |-> names[i],
            value |-> IF i <= Len(positional) THEN positional[i]
                      ELSE ParamsOf(fn)[i - 1].default]]
ReceivedAs(fn, args, name) ==
    LET r == Received(fn, args)
        i == CHOOSE j \in DOMAIN r : r[j].name = name IN r[i].value

\* The n-th invocation of the callable fn: does it raise, and with what.
Raises(fn, n) == fn.always \/ n <= fn.fails
CallableError == [type |-> "ValueError", msg |-> <<"Temporary error">>]
\* What the callable returns: complex_tool the parameters as it received
\* them, the other tools a result for the query they received.
Result(fn, args) ==
    IF fn.name = "complex_tool"
    THEN [required_str |-> ReceivedAs(fn, args, "required_str"),
          optional_int |-> ReceivedAs(fn, args, "optional_int"),
          nested_dict |-> ReceivedAs(fn, args, "nested_dict")]
    ELSE [status |-> "success", query |-> ReceivedAs(fn, args, "query")]

\* What execute hands back to its caller: `invoked` counts the invocations of
\* the callable the call made, `retry` is tool.current_retry as the call ends.
Returned(k, t, args, tl, n, result) ==
    [tool |-> k, tape |-> t, args |-> args, invoked |-> n,
     retry |-> tl.current_retry, outcome |-> "returned", value |-> result]
Raised(k, t, args, tl, n, e) ==
    [tool |-> k, tape |-> t, args |-> args, invoked |-> n,
     retry |-> tl.current_retry, outcome |-> "raised", value |-> e]

\* self.current_retry += 1
Unincremented(tl) == tl
Incremented(tl) == [tl EXCEPT !.current_retry = @ + 1]

\* if self.current_retry > self.max_retries: raise
ExceededNever(current_retry, max_retries) == FALSE
ExceededAtBound(current_retry, max_retries) == current_retry >= max_retries
BoundExceeded(current_retry, max_retries) == current_retry > max_retries

\* f"Tool execution failed: {str(e)}. Retry {current_retry}/{max_retries}"
FailureText(e, current_retry, max_retries) ==
    [failed |-> e.msg, retry |-> current_retry, max |-> max_retries]

\* The end of the try block, after the callable returned `result`: record an
\* ACTION step on context.tape, then return the result. tl is the Tool as the
\* call found it, n the invocations of the callable this call made.
SucceedUnrecorded(k, t, args, tl, n, result) ==
    /\ tools' = [tools EXCEPT ![k] = tl]
    /\ lists' = lists
    /\ calls' = Append(calls, Returned(k, t, args, tl, n, result))
SucceedResets(k, t, args, tl, n, result) ==
    LET fresh == [tl EXCEPT !.current_retry = 0] IN
    /\ tools' = [tools EXCEPT ![k] = fresh]
    /\ lists' = append(lists, tapes[t].steps,
                       Step(Action, [args |-> args, result |-> result],
                            "agent", fresh.name))
    /\ calls' = Append(calls, Returned(k, t, args, fresh, n, result))
Succeed(k, t, args, tl, n, result) ==
    /\ tools' = [tools EXCEPT ![k] = tl]
    /\ lists' = append(lists, tapes[t].steps,
                       Step(Action, [args |-> args, result |-> result],
                            "agent", tl.name))
    /\ calls' = Append(calls, Returned(k, t, args, tl, n, result))

\* The except branch: count the failure; past the bound re-raise at once,
\* otherwise record a THOUGHT step on context.tape and re-raise.
FailWrapped(k, t, args, tl, n, e) ==
    LET failed == Incremented(tl)
        past == BoundExceeded(failed.current_retry, failed.max_retries) IN
    /\ tools' = [tools EXCEPT ![k] = failed]
    /\ lists' = IF past THEN lists
                ELSE append(lists, tapes[t].steps,
                            Step(Thought,
                                 FailureText(e, failed.current_retry,
                                             failed.max_retries),
                                 "agent", failed.name))
    /\ calls' = Append(calls, Raised(k, t, args, failed, n,
                     IF past THEN [type |-> "RuntimeError",
                                   msg |-> <<"Max retries exceeded">>]
                     ELSE e))
FailAfterAction(k, t, args, tl, n, e) ==
    LET failed == Incremented(tl)
        begun == append(lists, tapes[t].steps,
                        Step(Action, [args |-> args, result |-> None],
                             "agent", failed.name)) IN
    /\ tools' = [tools EXCEPT ![k] = failed]
    /\ lists' = IF BoundExceeded(failed.current_retry, failed.max_retries)
                THEN begun
                ELSE append(begun, tapes[t].steps,
                            Step(Thought,
                                 FailureText(e, failed.current_retry,
                                             failed.max_retries),
                                 "agent", failed.name))
    /\ calls' = Append(calls, Raised(k, t, args, failed, n, e))
\* The except branch with validation done before the try block: a
\* validation error reaches the caller uncounted and unrecorded.
FailUncountedValidation(k, t, args, tl, n, e) ==
    LET failed == IF e.type = "ValidationError" THEN tl ELSE Incremented(tl)
        silent == \/ e.type = "ValidationError"
                  \/ BoundExceeded(failed.current_retry, failed.max_retries)
    IN
    /\ tools' = [tools EXCEPT ![k] = failed]
    /\ lists' = IF silent THEN lists
                ELSE append(lists, tapes[t].steps,
                            Step(Thought,
                                 FailureText(e, failed.current_retry,
                                             failed.max_retries),
                                 "agent", failed.name))
    /\ calls' = Append(calls, Raised(k, t, args, failed, n, e))
\* The except branch with a count of the failures kept for each context
\* instead of one count on the Tool.
FailPerContext(k, t, args, tl, n, e) ==
    LET own == Len(SelectSeq(calls, LAMBDA c : /\ c.tool = k /\ c.tape = t
                                               /\ c.outcome = "raised"))
        failed == [tl EXCEPT !.current_retry = own + 1] IN
    /\ tools' = [tools EXCEPT ![k] = failed]
    /\ lists' = IF BoundExceeded(failed.current_retry, failed.max_retries)
                THEN lists
                ELSE append(lists, tapes[t].steps,
                            Step(Thought,
                                 FailureText(e, failed.current_retry,
                                             failed.max_retries),
                                 "agent", failed.name))
    /\ calls' = Append(calls, Raised(k, t, args, failed, n, e))
Fail(k, t, args, tl, n, e) ==
    LET failed == Incremented(tl) IN
    /\ tools' = [tools EXCEPT ![k] = failed]
    /\ lists' = IF BoundExceeded(failed.current_retry, failed.max_retries)
                THEN lists
                ELSE append(lists, tapes[t].steps,
                            Step(Thought,
                                 FailureText(e, failed.current_retry,
                                             failed.max_retries),
                                 "agent", failed.name))
    /\ calls' = Append(calls, Raised(k, t, args, failed, n, e))

\* One execute call invokes the callable once: there is no loop in execute.
InvokesAgain(tl) == 2
InvokesWithinBudget(tl) == IF tl.current_retry > tl.max_retries THEN 0 ELSE 1
Invocations(tl) == 1

\* await tool.execute(args, RunContext(tape=t)) on a synchronous callable:
\* the whole call runs without suspending.
ExecuteSync(k, t, args) ==
    /\ ~tools[k].is_async
    /\ IF ValidationRaises(tools[k].function, args)
       THEN Fail(k, t, args, tools[k], 0,
                 ValidationError(tools[k].function, args))
       ELSE LET n == Invocations(tools[k])
                tl == [tools[k] EXCEPT !.invoked = @ + n] IN
            IF Raises(tl.function, tl.invoked)
            THEN Fail(k, t, args, tl, n, CallableError)
            ELSE Succeed(k, t, args, tl, n, Result(tl.function, args))
    /\ UNCHANGED <<next_uuid, tapes, pending, ret,
                   agents, phases, step_results, store>>

\* The same call on an asynchronous callable, up to `await self.function(...)`:
\* a validation failure is handled at once, otherwise the coroutine starts
\* and the call is suspended.
ExecuteAsync(k, t, args) ==
    /\ tools[k].is_async
    /\ IF ValidationRaises(tools[k].function, args)
       THEN /\ Fail(k, t, args, tools[k], 0,
                    ValidationError(tools[k].function, args))
            /\ UNCHANGED <<next_uuid, tapes, pending, ret,
                           agents, phases, step_results, store>>
       ELSE LET n == Invocations(tools[k])
                tl == [tools[k] EXCEPT !.invoked = @ + n] IN
            /\ tools' = [tools EXCEPT ![k] = tl]
            /\ pending' = pending \cup
                   {[tool |-> k, tape |-> t, args |-> args, invoked |-> n,
                     nth |-> tl.invoked,
                     raises |-> Raises(tl.function, tl.invoked)]}
            /\ UNCHANGED <<next_uuid, lists, tapes, calls, ret,
                           agents, phases, step_results, store>>

\* The awaited coroutine finishes and the suspended call runs to its end.
ResumeUnresolved(p) ==
    /\ p \in pending
    /\ pending' = pending \ {p}
    /\ Succeed(p.tool, p.tape, p.args, tools[p.tool], p.invoked,
               "<coroutine object>")
    /\ UNCHANGED <<next_uuid, tapes, ret,
                   agents, phases, step_results, store>>
Resume(p) ==
    /\ p \in pending
    /\ pending' = pending \ {p}
    /\ IF p.raises
       THEN Fail(p.tool, p.tape, p.args, tools[p.tool], p.invoked, CallableError)
       ELSE Succeed(p.tool, p.tape, p.args, tools[p.tool], p.invoked,
                    Result(tools[p.tool].function, p.args))
    /\ UNCHANGED <<next_uuid, tapes, ret,
                   agents, phases, step_results, store>>

\* -------------------------------------------------------------- the agent
\* StepResult(success=..., output=..., error=..., metadata=...); the
\* metadata mapping is written as the set of its key/value pairs.
StepResult(success, output, error, metadata) ==
    [success |-> success, output |-> output, error |-> error,
     metadata |-> metadata]

\* The steps a driver hands to execute_step: one of each type, as the tests
\* build them, and one whose type is none of the three.
StepInputs ==
    { Step(ty, "Test content", "test_agent", "test_node") :
          ty \in StepType \cup {"other"} }

\* What an invoked phase does. A SimpleAgent phase returns a successful
\* StepResult, or a failed one from its own except branch; a phase of another
\* variant may raise.
PhaseBehaviours ==
    { [kind |-> "returns",
       result |-> StepResult(TRUE, "phase output", NoneValue,
                             {<<"phase", "metadata">>})],
      [kind |-> "returns",
       result |-> StepResult(FALSE, NoneValue, "phase error", {})],
      [kind |-> "raises",
       exc |-> [type |-> "RuntimeError", msg |-> "phase raised"]] }

\* agent.current_tape = tape
BindTape(a, t) ==
    /\ agents' = [agents EXCEPT ![a].current_tape = t]
    /\ UNCHANGED <<next_uuid, lists, tapes, tools, pending, calls, ret,
                   phases, step_results, store>>

\* if not self.current_tape
TapeAlwaysActive(agent) == FALSE
NoActiveTape(agent) == agent.current_tape = None

\* step.content as the argument of think: the content alone, without the
\* type, the metadata and the id of the step around it.
ContentOf(step) == [content |-> step.content]

\* The if/elif chain on step.type: the phase to invoke and its argument;
\* no phase for a type that is none of the three.
SelectShifted(step) ==
    CASE step.type = Thought -> [phase |-> "act", arg |-> step]
      [] step.type = Action -> [phase |-> "observe", arg |-> step]
      [] step.type = Observation -> [phase |-> "think", arg |-> ContentOf(step)]
      [] OTHER -> [phase |-> "none"]
SelectPhase(step) ==
    CASE step.type = Thought -> [phase |-> "think", arg |-> ContentOf(step)]
      [] step.type = Action -> [phase |-> "act", arg |-> step]
      [] step.type = Observation -> [phase |-> "observe", arg |-> step]
      [] OTHER -> [phase |-> "none"]

\* raise ValueError("No active tape") / raise ValueError(f"Unknown step ...")
NoTapeError == [type |-> "ValueError", msg |-> "No active tape"]
UnknownTypeError(step) ==
    [type |-> "ValueError", msg |-> "Unknown step type: " \o step.type]

\* The except branch of execute_step: the exception as a failed StepResult.
Escaped(e) == [outcome |-> "raised", value |-> e]
Converted(e) ==
    [outcome |-> "returned",
     value |-> StepResult(FALSE, NoneValue, e.msg,
                          {<<"exception_type", e.type>>})]

\* return result: the StepResult goes to the caller, who may turn it into a
\* Step; no list is changed. `answer` is what the call gives its caller.
AppendResult(answer) ==
    IF answer.outcome = "returned" /\ answer.value.success
    THEN append(lists, tapes[answer.tape].steps,
                Step(Observation, "Test content", agents[answer.agent].name,
                     "test_node"))
    ELSE lists
ReturnResult(answer) == lists

\* await agent.execute_step(step); b is what the invoked phase does.
ExecuteStep(a, step, b) ==
    LET agent == agents[a]
        sel == SelectPhase(step)
        answer(o) == [agent |-> a, step |-> step, tape |-> agent.current_tape,
                      outcome |-> o.outcome, value |-> o.value] IN
    /\ IF NoActiveTape(agent)
       THEN /\ step_results' =
                   Append(step_results,
                          answer([outcome |-> "raised", value |-> NoTapeError]))
            /\ phases' = phases
       ELSE IF sel.phase = "none"
       THEN /\ step_results' =
                   Append(step_results,
                          answer(Converted(UnknownTypeError(step))))
            /\ phases' = phases
       ELSE /\ phases' = Append(phases, [agent |-> a, phase |-> sel.phase,
                                         arg |-> sel.arg])
            /\ step_results' =
                   Append(step_results,
                          answer(IF b.kind = "raises" THEN Converted(b.exc)
                                 ELSE [outcome |-> "returned",
                                       value |-> b.result]))
    /\ lists' = ReturnResult(step_results'[Len(step_results')])
    /\ UNCHANGED <<next_uuid, tapes, tools, pending, calls, ret,
                   agents, store>>

\* -------------------------------------------------------- specifications
\* The calls made so far, finished or suspended.
CallsMade == Len(calls) + Cardinality(pending)

\* The hand-built steps of tape t, and those of the first n tapes together.
HandStepCount(t) == Len(HandBuilt(StepsOf(t)))
RECURSIVE TotalHand(_)
TotalHand(n) == IF n = 0 THEN 0 ELSE HandStepCount(n) + TotalHand(n - 1)
HandStepsHeld == TotalHand(Len(tapes))

\* Spec: the tool pipeline. Callers create tapes with Tape() and make execute
\* calls on the Tool, synchronous or suspended and resumed.
Next ==
    \/ Len(tapes) < MaxContexts /\ NewTape("root")
    \/ CallsMade < MaxCalls /\
       \E k \in DOMAIN tools, t \in DOMAIN tapes, args \in ArgChoices :
           ExecuteSync(k, t, args)
    \/ CallsMade < MaxCalls /\
       \E k \in DOMAIN tools, t \in DOMAIN tapes, args \in ArgChoices :
           ExecuteAsync(k, t, args)
    \/ \E p \in pending : Resume(p)

Spec == Init /\ [][Next]_vars

\* SpecTape: the tape operations alone.
TapeNext ==
    \/ Len(tapes) < MaxTapes /\ \E a \in Authors : NewTape(a)
    \/ \E t \in DOMAIN tapes, h \in HandSteps :
           HandStepsHeld < MaxHandSteps /\ TapeAppend(t, h)
    \/ Len(tapes) < MaxTapes /\ \E t \in DOMAIN tapes :
           HandStepsHeld + HandStepCount(t) <= MaxHandSteps /\ clone(t)

SpecTape == InitTape /\ [][TapeNext]_vars

\* SpecQuery: the query operations, on tapes built by hand.
QueryNext ==
    \/ Len(tapes) < MaxQueryTapes /\ NewTape("root")
    \/ \E t \in DOMAIN tapes, h \in HandSteps :
           HandStepsHeld < MaxQuerySteps /\ TapeAppend(t, h)
    \/ \E t \in DOMAIN tapes, ty \in StepType : GetStepsByType(t, ty)
    \/ \E t \in DOMAIN tapes, a \in Agents : GetStepsByAgent(t, a)
    \/ \E t \in DOMAIN tapes : GetLastStep(t)

SpecQuery == InitTape /\ [][QueryNext]_vars

\* SpecAll: every operation that changes a tape or a Tool, together, within
\* smaller bounds.
AllNext ==
    \/ Len(tapes) < MaxAllTapes /\ NewTape("root")
    \/ \E t \in DOMAIN tapes, h \in HandSteps :
           HandStepsHeld < MaxAllHandSteps /\ TapeAppend(t, h)
    \/ Len(tapes) < MaxAllTapes /\ \E t \in DOMAIN tapes :
           HandStepsHeld + HandStepCount(t) <= MaxAllHandSteps /\ clone(t)
    \/ CallsMade < MaxAllCalls /\
       \E k \in DOMAIN tools, t \in DOMAIN tapes, args \in ArgChoices :
           ExecuteSync(k, t, args)
    \/ CallsMade < MaxAllCalls /\
       \E k \in DOMAIN tools, t \in DOMAIN tapes, args \in ArgChoices :
           ExecuteAsync(k, t, args)
    \/ \E p \in pending : Resume(p)

SpecAll == InitAll /\ [][AllNext]_vars

\* SpecArgs: execute calls on a Tool over complex_tool, with argument
\* mappings that differ in the keys they hold and in the order of their keys.
ArgsNext ==
    \/ Len(tapes) < MaxArgContexts /\ NewTape("root")
    \/ CallsMade < MaxArgCalls /\
       \E k \in DOMAIN tools, t \in DOMAIN tapes, args \in ComplexArgChoices :
           ExecuteSync(k, t, args)
    \/ CallsMade < MaxArgCalls /\
       \E k \in DOMAIN tools, t \in DOMAIN tapes, args \in ComplexArgChoices :
           ExecuteAsync(k, t, args)
    \/ \E p \in pending : Resume(p)

SpecArgs == InitArgs /\ [][ArgsNext]_vars

\* One agent has been constructed, no Tool: the start of SpecAgent.
InitAgent == StartWith(<<>>, <<Agent("test_agent")>>)

\* SpecAgent: a driver creates tapes, binds one to the agent and hands it
\* steps to execute.
AgentNext ==
    \/ Len(tapes) < MaxAgentTapes /\ NewTape("root")
    \/ \E a \in DOMAIN agents, t \in DOMAIN tapes :
           agents[a].current_tape # t /\ BindTape(a, t)
    \/ Len(step_results) < MaxStepCalls /\
       \E a \in DOMAIN agents, step \in StepInputs, b \in PhaseBehaviours :
           ExecuteStep(a, step, b)

SpecAgent == InitAgent /\ [][AgentNext]_vars

\* SpecHeld: the same driver also appends steps to the tapes, before and
\* between the calls.
HeldNext ==
    \/ Len(tapes) < MaxHeldTapes /\ NewTape("root")
    \/ \E t \in DOMAIN tapes, h \in HandSteps :
           HandStepsHeld < MaxHeldSteps /\ TapeAppend(t, h)
    \/ \E a \in DOMAIN agents, t \in DOMAIN tapes :
           agents[a].current_tape # t /\ BindTape(a, t)
    \/ Len(step_results) < MaxHeldCalls /\
       \E a \in DOMAIN agents, step \in StepInputs, b \in PhaseBehaviours :
           ExecuteStep(a, step, b)

SpecHeld == InitAgent /\ [][HeldNext]_vars

\* SpecPairs: two Agent/Tape pairs, each with a tape and a RunContext of
\* its own, make execute calls on either of two Tools.
PairsNext ==
    \/ Len(tapes) < MaxPairTapes /\ NewTape("root")
    \/ CallsMade < MaxPairCalls /\
       \E k \in DOMAIN tools, t \in DOMAIN tapes, args \in ArgChoices :
           ExecuteSync(k, t, args)
    \/ CallsMade < MaxPairCalls /\
       \E k \in DOMAIN tools, t \in DOMAIN tapes, args \in ArgChoices :
           ExecuteAsync(k, t, args)
    \/ \E p \in pending : Resume(p)

SpecPairs == InitPairs /\ [][PairsNext]_vars

\* SpecSchema: the schema is derived once, for a callable of any signature
\* within the bound, with or without a leading context parameter to skip.
SchemaNext ==
    ret.op = "none" /\
    \E sig \in Signatures, takes_ctx \in BOOLEAN :
        FunctionSchema(sig, takes_ctx)

SpecSchema == InitTape /\ [][SchemaNext]_vars

\* SpecTwin: a caller gives each of the two Tools a tape of its own and
\* makes every call twice, first on the synchronous Tool and then, with the
\* same arguments, on the asynchronous one, awaiting each call.
TwinNext ==
    \/ Len(tapes) < Len(tools) /\ NewTape("root")
    \/ /\ Len(tapes) = Len(tools) /\ pending = {}
       /\ CallsMade < MaxTwinCalls
       /\ Len(SelectSeq(calls, LAMBDA c : c.tool = 1)) =
              Len(SelectSeq(calls, LAMBDA c : c.tool = 2))
       /\ \E args \in ArgChoices : ExecuteSync(1, 1, args)
    \/ /\ Len(tapes) = Len(tools) /\ pending = {}
       /\ Len(SelectSeq(calls, LAMBDA c : c.tool = 1)) >
              Len(SelectSeq(calls, LAMBDA c : c.tool = 2))
       /\ \E args \in ArgChoices :
              /\ args = calls[Len(calls)].args
              /\ ExecuteAsync(2, 2, args)
    \/ \E p \in pending : Resume(p)

SpecTwin == InitTwin /\ [][TwinNext]_vars

\* SpecStore: a caller creates a tape, appends to the newest tape it holds,
\* clones it, saves tapes and asks the store for tapes and histories under
\* the identifiers handed out so far and one never handed out.
StoreNext ==
    \/ tapes = <<>> /\ NewTape("root")
    \/ \E h \in HandSteps :
           /\ tapes # <<>> /\ HandStepsHeld < MaxStoreSteps
           /\ TapeAppend(Len(tapes), h)
    \/ /\ tapes # <<>> /\ Len(tapes) < MaxStoreTapes
       /\ HandStepsHeld + HandStepCount(Len(tapes)) <= MaxStoreSteps
       /\ clone(Len(tapes))
    \/ \E t \in DOMAIN tapes : SaveTape(t)
    \/ \E id \in 1..next_uuid : LoadTape(id)
    \/ \E id \in 1..next_uuid : GetTapeHistory(id)

SpecStore == InitTape /\ [][StoreNext]_vars

\* ------------------------------------------------------------- properties
\* Helpers of the properties below.
IsPrefix(s, t) == Len(s) <= Len(t) /\ SubSeq(t, 1, Len(s)) = s
Last(s) == s[Len(s)]
Sum(f, S) ==
    LET RECURSIVE Acc(_)
        Acc(T) == IF T = {} THEN 0
                  ELSE LET x == CHOOSE y \in T : TRUE IN f[x] + Acc(T \ {x})
    IN Acc(S)
Min(a, b) == IF a <= b THEN a ELSE b

\* The finished calls of Tool k, in the order they finished.
CallsOf(k) == SelectSeq(calls, LAMBDA c : c.tool = k)
RaisedOf(k) == SelectSeq(CallsOf(k), LAMBDA c : c.outcome = "raised")
\* The steps of a list that Tool k recorded, and those of one type.
ToolSteps(k, steps) == SelectSeq(steps, LAMBDA s : s.node = tools[k].name)
ToolStepsOfType(k, steps, ty) ==
    SelectSeq(steps, LAMBDA s : s.node = tools[k].name /\ s.type = ty)
\* How many steps of a type Tool k has recorded over all list objects.
Recorded(k, ty) ==
    Sum([r \in DOMAIN lists |-> Len(ToolStepsOfType(k, lists[r], ty))],
        DOMAIN lists)
NoPending(k) == \A p \in pending : p.tool # k
ReturnedOf(k) == SelectSeq(CallsOf(k), LAMBDA c : c.outcome = "returned")

C2_Clone ==
    [][\A t \in DOMAIN tapes :
          clone(t) =>
              LET child == tapes'[Len(tapes')] IN
              /\ Len(tapes') = Len(tapes) + 1
              /\ child.metadata.parent_id = tapes[t].metadata.tape_id
              /\ child.metadata.author = tapes[t].metadata.author
              /\ \A u \in DOMAIN tapes :
                    child.metadata.tape_id # tapes[u].metadata.tape_id
              /\ lists'[child.steps] = StepsOf(t)]_vars

\* C2 witness: a clone of a tape of another author than "root" that held
\* two steps when it was cloned.
C2_Witness ==
    \E c \in DOMAIN tapes :
        /\ tapes[c].metadata.parent_id # None
        /\ tapes[c].metadata.author = "search_agent"
        /\ Len(StepsOf(c)) = 2

\* C3: a clone step changes no existing tape, and an append to one tape
\* changes the steps of no other tape, be it its clone or its source.
C3_Independent ==
    [][/\ \A t \in DOMAIN tapes :
             clone(t) => \A u \in DOMAIN tapes :
                            /\ tapes'[u] = tapes[u]
                            /\ lists'[tapes'[u].steps] = StepsOf(u)
       /\ \A t \in DOMAIN tapes, h \in HandSteps :
             TapeAppend(t, h) =>
                 \A u \in DOMAIN tapes \ {t} :
                     lists'[tapes'[u].steps] = StepsOf(u)]_vars

\* C3 witness: a tape cloned with one step; the clone was appended to
\* afterwards and the source still holds that one step.
C3_Witness ==
    \E p \in DOMAIN tapes, c \in DOMAIN tapes :
        /\ tapes[c].metadata.parent_id = tapes[p].metadata.tape_id
        /\ Len(StepsOf(p)) = 1
        /\ Len(StepsOf(c)) = 2
        /\ StepsOf(p)[1] = StepsOf(c)[1]

\* C4: tape_ids are pairwise distinct, and a parent_id is unset or the tape_id
\* of a tape created earlier.
C4_Lineage ==
    /\ \A t, u \in DOMAIN tapes :
          t # u => tapes[t].metadata.tape_id # tapes[u].metadata.tape_id
    /\ \A t \in DOMAIN tapes :
          \/ tapes[t].metadata.parent_id = None
          \/ \E u \in 1..(t - 1) :
                tapes[u].metadata.tape_id = tapes[t].metadata.parent_id

\* C4 witness: a chain of three tapes, each the clone of the one before.
C4_Witness ==
    /\ Len(tapes) >= 3
    /\ tapes[1].metadata.parent_id = None
    /\ tapes[2].metadata.parent_id = tapes[1].metadata.tape_id
    /\ tapes[3].metadata.parent_id = tapes[2].metadata.tape_id

\* C5: a call that returns has added exactly one step, an ACTION step at the
\* end of the context's tape, whose node is the tool's name and whose content
\* holds the supplied args and the result; it adds no THOUGHT step, changes
\* no other list, and hands the callable's result to its caller.
C5_SuccessRecorded ==
    [][(Len(calls') = Len(calls) + 1 /\ Last(calls').outcome = "returned") =>
          LET c == Last(calls')
              r == tapes[c.tape].steps IN
          /\ c.value = Result(tools[c.tool].function, c.args)
          /\ lists' = [lists EXCEPT ![r] =
                 Append(@, [type |-> Action,
                            content |-> [args |-> c.args, result |-> c.value],
                            agent |-> "agent",
                            node |-> tools[c.tool].name])]]_vars

\* C5 witness: a call has returned and its ACTION step is on the tape.
C5_Witness ==
    \E i \in DOMAIN calls :
        /\ calls[i].outcome = "returned"
        /\ \E j \in DOMAIN StepsOf(calls[i].tape) :
              StepsOf(calls[i].tape)[j].type = Action

\* The case of C6: every call of Tool k ran on tape t; its first f calls,
\* f <= max_retries, raised and its last call, the one after them, returned.
FailuresThenSuccess(k, t, f) ==
    /\ NoPending(k)
    /\ Len(CallsOf(k)) = f + 1
    /\ f <= tools[k].max_retries
    /\ \A i \in 1..(f + 1) :
          /\ CallsOf(k)[i].tape = t
          /\ CallsOf(k)[i].outcome = IF i <= f THEN "raised" ELSE "returned"

\* C6: f failures, f <= max_retries, followed by a success on a fresh Tool
\* leave on the tape exactly f THOUGHT steps, numbered 1..f, and then one
\* ACTION step, and the last call returns the callable's result.
C6_RetryTrail ==
    \A k \in DOMAIN tools, t \in DOMAIN tapes, f \in 0..MaxCalls :
        FailuresThenSuccess(k, t, f) =>
            LET trail == ToolSteps(k, StepsOf(t)) IN
            /\ Len(trail) = f + 1
            /\ \A i \in 1..f : /\ trail[i].type = Thought
                               /\ trail[i].content.retry = i
            /\ trail[f + 1].type = Action
            /\ Last(CallsOf(k)).value =
                   Result(tools[k].function, Last(CallsOf(k)).args)
            /\ trail[f + 1].content.result = Last(CallsOf(k)).value

\* C6 witness: max_retries = 3, the callable failed on attempts 1 and 2 and
\* succeeded on attempt 3.
C6_Witness ==
    \E k \in DOMAIN tools, t \in DOMAIN tapes :
        /\ tools[k].max_retries = 3
        /\ tools[k].function.name = "failing_tool"
        /\ FailuresThenSuccess(k, t, 2)
        /\ \A i \in 1..3 : CallsOf(k)[i].invoked = 1

\* C7 as claimed: the first call, with valid arguments, of a Tool with
\* max_retries = 3 over the callable that raises on its first two invocations
\* returns, having invoked the callable three times.
C7_SingleCallRetries ==
    \A k \in DOMAIN tools :
        ( /\ tools[k].max_retries = 3
          /\ tools[k].function.name = "failing_tool"
          /\ CallsOf(k) # <<>>
          /\ ~ValidationRaises(tools[k].function, CallsOf(k)[1].args) ) =>
            /\ CallsOf(k)[1].outcome = "returned"
            /\ CallsOf(k)[1].invoked = 3

\* C8: on a Tool with max_retries = N whose callable always fails, each of the
\* m calls made raises, the Tool has recorded min(m, N) THOUGHT steps and no
\* ACTION step, and the r-th THOUGHT holds the error message of the r-th call.
C8_AlwaysFails ==
    \A k \in DOMAIN tools :
        tools[k].function.always =>
            /\ \A i \in DOMAIN CallsOf(k) : CallsOf(k)[i].outcome = "raised"
            /\ Recorded(k, Thought) =
                   Min(Len(CallsOf(k)), tools[k].max_retries)
            /\ Recorded(k, Action) = 0
            /\ \A t \in DOMAIN tapes :
                  \A j \in DOMAIN ToolSteps(k, StepsOf(t)) :
                      LET txt == ToolSteps(k, StepsOf(t))[j].content IN
                      /\ txt.retry \in 1..tools[k].max_retries
                      /\ txt.retry <= Len(CallsOf(k))
                      /\ txt.failed = CallsOf(k)[txt.retry].value.msg

\* C8 witness: max_retries = 1 and two finished calls on an always-failing
\* callable, the first of which invoked it.
C8_Witness ==
    \E k \in DOMAIN tools :
        /\ tools[k].function.always
        /\ tools[k].max_retries = 1
        /\ NoPending(k)
        /\ Len(CallsOf(k)) = 2
        /\ CallsOf(k)[1].invoked = 1

\* C9: the THOUGHT steps a Tool has recorded number min(failed calls,
\* max_retries), whatever the mix of outcomes, contexts and tapes.
C9_ThoughtsBounded ==
    \A k \in DOMAIN tools :
        /\ Recorded(k, Thought) = Min(Len(RaisedOf(k)), tools[k].max_retries)
        /\ Recorded(k, Thought) <= tools[k].max_retries

\* C9 witness: a Tool with a returned call between raised ones, more raised
\* calls than max_retries, and calls on two tapes.
C9_Witness ==
    \E k \in DOMAIN tools :
        /\ Len(CallsOf(k)) = 4
        /\ CallsOf(k)[1].outcome = "raised"
        /\ CallsOf(k)[2].outcome = "returned"
        /\ CallsOf(k)[3].outcome = "raised"
        /\ CallsOf(k)[4].outcome = "raised"
        /\ CallsOf(k)[1].tape # CallsOf(k)[3].tape
        /\ tools[k].max_retries = 2

\* C10: on a fresh Tool with max_retries = N whose every call fails, the
\* counter after the i-th call is i, so the calls that end with current_retry
\* above max_retries are those from the (N+1)-th on: N + 1 attempts are made
\* up to and including the terminal failure.
C10_ExtraAttempts ==
    \A k \in DOMAIN tools :
        (\A i \in DOMAIN CallsOf(k) : CallsOf(k)[i].outcome = "raised") =>
            \A i \in DOMAIN CallsOf(k) :
                /\ CallsOf(k)[i].retry = i
                /\ (CallsOf(k)[i].retry > tools[k].max_retries)
                       <=> (i >= tools[k].max_retries + 1)

\* C10 witness: max_retries = 3, an always-failing callable, and the fourth
\* attempt has just failed, past the bound.
C10_Witness ==
    \E k \in DOMAIN tools :
        /\ tools[k].function.always
        /\ tools[k].max_retries = 3
        /\ Len(CallsOf(k)) = 4
        /\ CallsOf(k)[4].retry > tools[k].max_retries
        /\ CallsOf(k)[3].retry <= tools[k].max_retries

\* The finished call a step has just added to the log is one that raised e.
JustRaised(e) ==
    /\ Len(calls') = Len(calls) + 1
    /\ Last(calls').outcome = "raised"
    /\ Last(calls').value = e

C12_OnlyTerminalEscapes ==
    \A i \in DOMAIN calls :
        calls[i].outcome = "raised" =>
            calls[i].retry > tools[calls[i].tool].max_retries

\* C13: in every state the ACTION steps a Tool has recorded are as many as
\* its calls that returned; a call that failed, or that is still suspended
\* on its callable, has recorded none.
C13_ActionsAreReturns ==
    \A k \in DOMAIN tools : Recorded(k, Action) = Len(ReturnedOf(k))

\* C13 witness: a Tool with a returned call, a call whose callable failed and
\* a call still suspended on its callable; one ACTION step is recorded.
C13_Witness ==
    \E k \in DOMAIN tools :
        /\ Len(ReturnedOf(k)) = 1
        /\ \E i \in DOMAIN CallsOf(k) :
              CallsOf(k)[i].outcome = "raised" /\ CallsOf(k)[i].invoked = 1
        /\ \E p \in pending : p.tool = k
        /\ Recorded(k, Action) = 1

\* The ACTION steps held by the list object r.
ActionsIn(ls, r) == Len(SelectSeq(ls[r], LAMBDA s : s.type = Action))

Declared(k) ==
    { ParamsOf(tools[k].function)[i] : i \in DOMAIN ParamsOf(tools[k].function) }

\* C16 as claimed: whatever the order of the keys of the supplied mapping and
\* whichever optional arguments it omits, each declared parameter of
\* complex_tool receives the value supplied under its own name, or its
\* default when the mapping omits it (complex_tool returns what it received).
C16_DeclaredOrder ==
    \A i \in DOMAIN calls :
        calls[i].outcome = "returned" =>
            \A p \in Declared(calls[i].tool) :
                calls[i].value[p.name] =
                    IF p.name \in Keys(calls[i].args)
                    THEN ArgValue(calls[i].args, p.name)
                    ELSE p.default

\* The execute_step call a step has just answered.
Answered == Len(step_results') = Len(step_results) + 1
Answer == Last(step_results')

\* C17: execute_step on an agent with no tape bound raises ValueError
\* "No active tape" and invokes no phase; with a tape bound it never raises,
\* a failure of a phase being returned as a StepResult.
C17_NoActiveTape ==
    [][\A a \in DOMAIN agents, step \in StepInputs, b \in PhaseBehaviours :
          ExecuteStep(a, step, b) =>
              /\ Answered
              /\ IF agents[a].current_tape = None
                 THEN /\ Answer.outcome = "raised"
                      /\ Answer.value = [type |-> "ValueError",
                                         msg |-> "No active tape"]
                      /\ phases' = phases
                 ELSE Answer.outcome = "returned"]_vars

\* C17 witness: one call was made before a tape was bound and raised with no
\* phase invoked for it; a later call, with a tape bound, had its phase
\* raise and returned a failed StepResult.
C17_Witness ==
    /\ Len(step_results) = 2
    /\ step_results[1].tape = None
    /\ step_results[1].outcome = "raised"
    /\ step_results[2].tape # None
    /\ step_results[2].outcome = "returned"
    /\ step_results[2].value.metadata =
           {<<"exception_type", "RuntimeError">>}
    /\ Len(phases) = 1

C19_OnePhase ==
    [][\A a \in DOMAIN agents, step \in StepInputs, b \in PhaseBehaviours :
          ( /\ ExecuteStep(a, step, b)
            /\ agents[a].current_tape # None
            /\ step.type \in StepType ) =>
              /\ phases' = Append(phases,
                     [agent |-> a,
                      phase |-> IF step.type = Thought THEN "think"
                                ELSE IF step.type = Action THEN "act"
                                ELSE "observe",
                      arg |-> IF step.type = Thought
                              THEN [content |-> step.content]
                              ELSE step])
              /\ b.kind = "returns" =>
                    /\ Answered
                    /\ Answer.outcome = "returned"
                    /\ Answer.value = b.result]_vars

\* C19 witness: a THOUGHT and then an ACTION were executed with a tape
\* bound; think and act were invoked, in that order, and their results, a
\* successful and a failed one, were returned.
C19_Witness ==
    /\ Len(phases) = 2
    /\ phases[1].phase = "think"
    /\ phases[1].arg = [content |-> "Test content"]
    /\ phases[2].phase = "act" /\ phases[2].arg.type = Action
    /\ Len(step_results) = 2
    /\ step_results[1].value.success = TRUE
    /\ step_results[2].value.success = FALSE
    /\ step_results[2].value.error = "phase error"

\* v holds exactly the steps at the positions `matching` of `steps`, each
\* once and in the order of the tape.
IsFilterOf(v, steps, matching) ==
    \E f \in [DOMAIN v -> DOMAIN steps] :
        /\ \A i, j \in DOMAIN v : i < j => f[i] < f[j]
        /\ { f[i] : i \in DOMAIN v } = matching
        /\ \A i \in DOMAIN v : v[i] = steps[f[i]]

\* C20: get_steps_by_type and get_steps_by_agent hand back exactly the steps
\* of the tape whose type (whose metadata.agent) is the one asked for, in
\* tape order, the empty sequence when there is none, and change no tape.
C20_PureFilters ==
    [][/\ \A t \in DOMAIN tapes, ty \in StepType :
             GetStepsByType(t, ty) =>
                 /\ IsFilterOf(ret'.value, StepsOf(t),
                        { i \in DOMAIN StepsOf(t) : StepsOf(t)[i].type = ty })
                 /\ lists' = lists /\ tapes' = tapes
       /\ \A t \in DOMAIN tapes, a \in Agents :
             GetStepsByAgent(t, a) =>
                 /\ IsFilterOf(ret'.value, StepsOf(t),
                        { i \in DOMAIN StepsOf(t) : StepsOf(t)[i].agent = a })
                 /\ lists' = lists /\ tapes' = tapes]_vars

\* C20 witness: get_steps_by_type was asked for a type that the first and
\* the third of a tape's three steps have and the second has not, and
\* handed back those two.
C20_Witness ==
    /\ ret.op = "get_steps_by_type"
    /\ Len(StepsOf(ret.tape)) = 3
    /\ StepsOf(ret.tape)[2].type # ret.arg
    /\ ret.value = <<StepsOf(ret.tape)[1], StepsOf(ret.tape)[3]>>

StepsOfCall(c) ==
    IF c.outcome = "returned"
    THEN <<[type |-> Action, content |-> [args |-> c.args, result |-> c.value],
            agent |-> "agent", node |-> tools[c.tool].name]>>
    ELSE IF c.retry <= tools[c.tool].max_retries
    THEN <<[type |-> Thought,
            content |-> [failed |-> c.value.msg, retry |-> c.retry,
                         max |-> tools[c.tool].max_retries],
            agent |-> "agent", node |-> tools[c.tool].name]>>
    ELSE <<>>
\* The steps of the calls that finished on tape t, in the order they finished.
CompletionSteps(t) ==
    LET RECURSIVE Upto(_)
        Upto(i) == IF i = 0 THEN <<>>
                   ELSE Upto(i - 1) \o
                        (IF calls[i].tape = t THEN StepsOfCall(calls[i])
                         ELSE <<>>)
    IN Upto(Len(calls))

\* C22: the steps on a tape are the steps of the calls that finished on it,
\* one per recording call, in the order in which the calls finished, whatever
\* the order in which they started and however they were suspended.
C22_CompletionOrder ==
    \A t \in DOMAIN tapes : StepsOf(t) = CompletionSteps(t)

\* C22 witness: on one tape a call of the failing tool that returned finished
\* before a call that raised the callable's error, which therefore had
\* started earlier, and the tape holds the ACTION before the THOUGHT.
C22_Witness ==
    \E i, j \in DOMAIN calls :
        /\ i < j
        /\ calls[i].tape = calls[j].tape /\ calls[i].tool = calls[j].tool
        /\ tools[calls[i].tool].function.name = "failing_tool"
        /\ calls[i].outcome = "returned"
        /\ calls[j].outcome = "raised" /\ calls[j].value.type = "ValueError"
        /\ \E m, n \in DOMAIN StepsOf(calls[i].tape) :
              /\ m < n
              /\ StepsOf(calls[i].tape)[m].type = Action
              /\ StepsOf(calls[i].tape)[n].type = Thought

\* The failed calls of Tool k that were made with tape t, in the order they
\* finished.
OwnRaised(k, t) == SelectSeq(RaisedOf(k), LAMBDA c : c.tape = t)

\* C23: the current_retry of each Tool is the number of its failed calls,
\* whatever tape each was made with, and the i-th failure of a Tool sees the
\* counter at i; the calls on one Tool leave the counter of the other alone.
C23_CounterOfTheTool ==
    \A k \in DOMAIN tools :
        /\ tools[k].current_retry = Len(RaisedOf(k))
        /\ \A i \in DOMAIN RaisedOf(k) : RaisedOf(k)[i].retry = i

\* C23 witness: a Tool with max_retries = 1 failed once with one tape, then
\* with the other tape, whose first failure found the budget used up and
\* recorded no THOUGHT; the other Tool has returned and its counter is 0.
C23_Witness ==
    \E k, o \in DOMAIN tools, t, u \in DOMAIN tapes :
        /\ k # o /\ t # u
        /\ tools[k].max_retries = 1
        /\ Len(OwnRaised(k, t)) = 1 /\ Len(OwnRaised(k, u)) = 1
        /\ OwnRaised(k, u)[1].retry = 2
        /\ ToolStepsOfType(k, StepsOf(u), Thought) = <<>>
        /\ Len(ReturnedOf(o)) = 1 /\ tools[o].current_retry = 0

\* C24: what a pair finds on its tape is what it would find had the other
\* pair not run: for each Tool, one THOUGHT for each of the pair's own
\* failed calls up to max_retries, numbered from 1.
C24_NoInterference ==
    \A t \in DOMAIN tapes, k \in DOMAIN tools :
        LET thoughts == ToolStepsOfType(k, StepsOf(t), Thought) IN
        /\ Len(thoughts) = Min(Len(OwnRaised(k, t)), tools[k].max_retries)
        /\ \A i \in DOMAIN thoughts : thoughts[i].content.retry = i

\* The positions of the parameters a schema is to describe: all of them, but
\* for the first when the tool takes a context.
Described(sig, takes_ctx) ==
    { i \in DOMAIN sig : i > 1 \/ ~takes_ctx }

\* C25: a derived schema has type object, one property for each declared
\* parameter but a skipped leading context, in declaration order, and
\* requires exactly the described parameters without a default value; for
\* (ctx, query: str, max_results: int = 10) it requires query alone, and for
\* (ctx) it has no property and requires nothing.
C25_DerivedSchema ==
    ret.op = "function_schema" =>
        LET sig == ret.function
            schema == ret.value
            described == Described(sig, ret.takes_ctx) IN
        /\ schema.type = "object"
        /\ Len(schema.properties) = Cardinality(described)
        /\ \A i \in DOMAIN schema.properties :
              schema.properties[i][1] =
                  ParamName(i + (IF ret.takes_ctx THEN 1 ELSE 0))
        /\ { schema.required[i] : i \in DOMAIN schema.required } =
              { ParamName(i) : i \in { j \in described : ~sig[j][2] } }
        /\ Len(schema.required) =
              Cardinality({ j \in described : ~sig[j][2] })
        /\ (/\ ret.takes_ctx /\ Len(sig) = 3
            /\ sig[2] = <<"str", FALSE>> /\ sig[3] = <<"int", TRUE>>)
               => schema.required = <<"query">>
        /\ (ret.takes_ctx /\ Len(sig) = 1)
               => schema.properties = <<>> /\ schema.required = <<>>

\* C25 witness: the schema was derived for (ctx, query: str,
\* max_results: int = 10) with the context skipped; it describes query and
\* max_results and requires query.
C25_Witness ==
    /\ ret.op = "function_schema"
    /\ ret.takes_ctx
    /\ Len(ret.function) = 3
    /\ ret.function[2] = <<"str", FALSE>>
    /\ ret.function[3] = <<"int", TRUE>>
    /\ Len(ret.value.properties) = 2
    /\ ret.value.required = <<"query">>

\* C26: once the synchronous and the asynchronous Tool over the same
\* function have finished the same calls, their calls had the same outcomes
\* with the same results or exceptions, their tapes hold the same steps and
\* their current_retry is the same.
C26_SameEffect ==
    (pending = {} /\ Len(CallsOf(1)) = Len(CallsOf(2))) =>
        /\ \A i \in DOMAIN CallsOf(1) :
              /\ CallsOf(1)[i].args = CallsOf(2)[i].args
              /\ CallsOf(1)[i].outcome = CallsOf(2)[i].outcome
              /\ CallsOf(1)[i].value = CallsOf(2)[i].value
        /\ Len(tapes) = 2 => StepsOf(1) = StepsOf(2)
        /\ tools[1].current_retry = tools[2].current_retry

\* C26 witness: over the failing tool with max_retries = 1 both Tools have
\* finished three calls, the asynchronous one raising twice and then
\* returning, and its tape holds a THOUGHT followed by an ACTION.
C26_Witness ==
    /\ pending = {}
    /\ Len(CallsOf(1)) = 3 /\ Len(CallsOf(2)) = 3
    /\ tools[2].is_async /\ ~tools[1].is_async
    /\ CallsOf(2)[1].outcome = "raised"
    /\ CallsOf(2)[2].outcome = "raised"
    /\ CallsOf(2)[3].outcome = "returned"
    /\ Len(StepsOf(2)) = 2
    /\ StepsOf(2)[1].type = Thought /\ StepsOf(2)[2].type = Action

\* The identifier tape t carries.
IdOf(t) == tapes[t].metadata.tape_id
\* A step that leaves an answer of the store operation op in place and no
\* list, tape or stored row changed is a call of that operation.
Asked(op) ==
    /\ ret'.op = op
    /\ store' = store /\ tapes' = tapes /\ lists' = lists
Saving ==
    /\ ret'.op = "save_tape"
    /\ tapes' = tapes /\ lists' = lists

\* C27: in SpecStore tape t is a clone of tape t - 1 and tape 1 is the root.
\* When every tape from the root to tape t has been saved, the history
\* asked under the identifier of tape t is the identifiers of tapes
\* t, t - 1, ..., 1 in that order; for t = 2 it is [child_id, parent_id].
C27_History ==
    [][Asked("get_tape_history") =>
          \A t \in DOMAIN tapes :
              (/\ ret'.arg = IdOf(t)
               /\ \A j \in 1..t : TapeRows(store, IdOf(j)) # {})
                  => ret'.value = [i \in 1..t |-> IdOf(t + 1 - i)]]_vars

\* C27 witness: three tapes, each a clone of the one before, have been
\* saved and the history asked for the last one names the three, last first.
C27_Witness ==
    /\ ret.op = "get_tape_history"
    /\ Len(tapes) = 3
    /\ \A j \in 1..3 : TapeRows(store, IdOf(j)) # {}
    /\ ret.arg = IdOf(3)
    /\ ret.value = <<IdOf(3), IdOf(2), IdOf(1)>>

\* C28: right after a tape is saved, loading the identifier handed back
\* gives the tape's steps, as many and in the same order, and its metadata;
\* what an identifier loads changes only when a tape carrying it is saved;
\* a load hands back what the store holds, and fails with NotFound exactly
\* for an identifier under which nothing has been saved.
C28_SaveLoad ==
    [][/\ Saving =>
             /\ ret'.value = IdOf(ret'.tape)
             /\ load_tape(store', ret'.value) =
                    [outcome |-> "returned", steps |-> StepsOf(ret'.tape),
                     metadata |-> tapes[ret'.tape].metadata]
       /\ \A id \in 1..next_uuid :
             ~(Saving /\ IdOf(ret'.tape) = id) =>
                 load_tape(store', id) = load_tape(store, id)
       /\ Asked("load_tape") =>
             /\ ret'.value = load_tape(store, ret'.arg)
             /\ (ret'.value = [outcome |-> "raised", error |-> "NotFound"])
                    <=> (ret'.arg \notin { r.tape_id : r \in store.tapes })
      ]_vars

\* C28 witness: a tape holding two different steps was saved and then
\* loaded, and the loaded tape has its two steps in order and its metadata.
C28_Witness ==
    /\ ret.op = "load_tape"
    /\ ret.value.outcome = "returned"
    /\ Len(ret.value.steps) = 2
    /\ ret.value.steps[1] # ret.value.steps[2]
    /\ \E t \in DOMAIN tapes :
          /\ IdOf(t) = ret.arg
          /\ ret.value.steps = StepsOf(t)
          /\ ret.value.metadata = tapes[t].metadata

\* The THOUGHT steps Tool k has recorded on tape t.
ThoughtsOn(k, t) == ToolStepsOfType(k, StepsOf(t), Thought)

\* C29 as stated: every failed call has left a THOUGHT step, the one that
\* took the counter past max_retries included.
C29_ThoughtEveryFailure ==
    \A k \in DOMAIN tools, t \in DOMAIN tapes :
        Len(ThoughtsOn(k, t)) = Len(OwnRaised(k, t))

\* C29 amended: a failed call first increments current_retry, then checks
\* the bound: the i-th failure of a Tool sees the counter at i, leaves no
\* step when i exceeds max_retries and otherwise one THOUGHT step holding
\* the error message and the counts i and max_retries, on the tape of its
\* context.
C29_BoundBeforeThought ==
    \A k \in DOMAIN tools :
        /\ \A i \in DOMAIN RaisedOf(k) : RaisedOf(k)[i].retry = i
        /\ \A t \in DOMAIN tapes :
              LET within == SelectSeq(OwnRaised(k, t),
                                LAMBDA c : c.retry <= tools[k].max_retries)
              IN ThoughtsOn(k, t) =
                     [i \in DOMAIN within |->
                         [type |-> Thought,
                          content |-> [failed |-> within[i].value.msg,
                                       retry |-> within[i].retry,
                                       max |-> tools[k].max_retries],
                          agent |-> "agent", node |-> tools[k].name]]

\* C29 witness: a Tool with max_retries = 1 has failed twice with one tape,
\* the second time past the bound, and the tape holds the one THOUGHT of
\* the first failure.
C29_Witness ==
    \E k \in DOMAIN tools, t \in DOMAIN tapes :
        /\ tools[k].max_retries = 1
        /\ Len(OwnRaised(k, t)) = 2
        /\ OwnRaised(k, t)[2].retry = 2
        /\ Len(ThoughtsOn(k, t)) = 1
        /\ ThoughtsOn(k, t)[1].content.retry = 1

\* The failed calls of Tool k that argument validation failed, by their
\* place among the failed calls of the Tool.
ValidationFailures(k) ==
    { i \in DOMAIN RaisedOf(k) : RaisedOf(k)[i].value.type = "ValidationError" }

\* C30: a call that argument validation failed did not invoke the callable
\* and was counted like any failure: as the i-th failure of its Tool it saw
\* the counter at i, and it left exactly one THOUGHT step, holding its
\* message and the count i, on its tape when i is within max_retries and
\* none otherwise.
C30_ValidationCounted ==
    \A k \in DOMAIN tools : \A i \in ValidationFailures(k) :
        LET c == RaisedOf(k)[i]
            left == SelectSeq(ThoughtsOn(k, c.tape),
                              LAMBDA s : s.content.retry = i) IN
        /\ c.invoked = 0
        /\ c.retry = i
        /\ \A t \in DOMAIN tapes \ {c.tape} :
              \A j \in DOMAIN ThoughtsOn(k, t) :
                  ThoughtsOn(k, t)[j].content.retry # i
        /\ IF i <= tools[k].max_retries
           THEN Len(left) = 1 /\ left[1].content.failed = c.value.msg
           ELSE left = <<>>

\* C30 witness: with max_retries = 1 a validation failure used the budget
\* and left its THOUGHT, and the failure of the callable that followed was
\* past the bound and left none.
C30_Witness ==
    \E k \in DOMAIN tools :
        /\ tools[k].max_retries = 1
        /\ Len(RaisedOf(k)) = 2
        /\ RaisedOf(k)[1].value.type = "ValidationError"
        /\ RaisedOf(k)[2].value.type = "ValueError"
        /\ RaisedOf(k)[2].retry = 2
        /\ Recorded(k, Thought) = 1

\* The retry counts written in the THOUGHT steps of Tool k, over all lists.
ThoughtNumbers(k) ==
    UNION { { lists[r][i].content.retry :
                i \in { j \in DOMAIN lists[r] :
                           /\ lists[r][j].type = Thought
                           /\ lists[r][j].node = tools[k].name } } :
            r \in DOMAIN lists }
Numbered(k) ==
    /\ ThoughtNumbers(k) = 1..Recorded(k, Thought)
    /\ Recorded(k, Thought) <= tools[k].max_retries

C32_CounterOnlyGrows ==
    \A k \in DOMAIN tools :
        LET cs == CallsOf(k) IN
        /\ \A i \in DOMAIN cs :
              cs[i].retry = (IF i = 1 THEN 0 ELSE cs[i - 1].retry)
                            + (IF cs[i].outcome = "raised" THEN 1 ELSE 0)
        /\ tools[k].current_retry = IF Len(cs) = 0 THEN 0 ELSE cs[Len(cs)].retry

\* C32 witness: a Tool with max_retries = 1 failed, then returned, then
\* failed again; the success left the counter at 1, so the second failure
\* took it to 2, past the bound, and left no THOUGHT.
C32_Witness ==
    \E k \in DOMAIN tools :
        /\ tools[k].max_retries = 1
        /\ Len(CallsOf(k)) = 3
        /\ CallsOf(k)[1].outcome = "raised" /\ CallsOf(k)[1].retry = 1
        /\ CallsOf(k)[2].outcome = "returned" /\ CallsOf(k)[2].retry = 1
        /\ CallsOf(k)[3].outcome = "raised" /\ CallsOf(k)[3].retry = 2
        /\ tools[k].current_retry = 2
        /\ Recorded(k, Thought) = 1

\* The failures among the first n finished calls of Tool k.
RaisedBefore(k, n) ==
    Cardinality({ i \in 1..n : CallsOf(k)[i].outcome = "raised" })

\* C33: a call that finishes when its Tool has already failed more than
\* max_retries times was still validated and, when its arguments were
\* valid, still invoked the callable once; when the callable returned, the
\* call returned its result and left an ACTION step with it, and when the
\* call failed it left no THOUGHT step.
C33_NotDisabled ==
    \A k \in DOMAIN tools :
        /\ Recorded(k, Action) = Len(ReturnedOf(k))
        /\ \A i \in DOMAIN CallsOf(k) :
              LET c == CallsOf(k)[i]
                  fn == tools[k].function IN
              RaisedBefore(k, i - 1) > tools[k].max_retries =>
                  /\ IF Required(fn) \subseteq Keys(c.args)
                     THEN c.invoked = 1
                     ELSE /\ c.invoked = 0 /\ c.outcome = "raised"
                          /\ c.value.type = "ValidationError"
                  /\ c.outcome = "returned" =>
                        \E j \in DOMAIN StepsOf(c.tape) :
                            /\ StepsOf(c.tape)[j].type = Action
                            /\ StepsOf(c.tape)[j].node = tools[k].name
                            /\ StepsOf(c.tape)[j].content =
                                   [args |-> c.args, result |-> c.value]
                  /\ c.outcome = "raised" =>
                        c.retry \notin ThoughtNumbers(k)

\* C33 witness: the failing tool with max_retries = 0 raised on its first
\* call, taking the counter past the bound without a THOUGHT, raised again,
\* and on its third call returned and left an ACTION step.
C33_Witness ==
    \E k \in DOMAIN tools :
        /\ tools[k].function.name = "failing_tool"
        /\ tools[k].max_retries = 0
        /\ Len(CallsOf(k)) = 3
        /\ CallsOf(k)[1].outcome = "raised"
        /\ CallsOf(k)[2].outcome = "raised"
        /\ CallsOf(k)[3].outcome = "returned"
        /\ CallsOf(k)[3].invoked = 1
        /\ Recorded(k, Thought) = 0
        /\ Recorded(k, Action) = 1

\* C34: a step in which an execute_step call answers, with a success, a
\* failure or the no-tape error, leaves every list, every tape (its list
\* and its metadata) and the current_tape of every agent as they were.
C34_TapeUntouched ==
    [][Answered =>
          /\ lists' = lists
          /\ tapes' = tapes
          /\ \A a \in DOMAIN agents :
                agents'[a].current_tape = agents[a].current_tape]_vars

\* C34 witness: an agent bound to a tape holding a step has answered two
\* execute_step calls, one with a successful and one with a failed
\* StepResult, and the tape still holds that one step.
C34_Witness ==
    /\ Len(step_results) = 2
    /\ step_results[1].outcome = "returned"
    /\ step_results[2].outcome = "returned"
    /\ step_results[1].value.success = TRUE
    /\ step_results[2].value.success = FALSE
    /\ step_results[1].tape = step_results[2].tape
    /\ step_results[1].tape # None
    /\ agents[step_results[2].agent].current_tape = step_results[1].tape
    /\ Len(StepsOf(step_results[1].tape)) = 1
    /\ HandBuilt(StepsOf(step_results[1].tape)) = StepsOf(step_results[1].tape)

====
